---------------------------- MODULE Spec2Model ----------------------------
(***************************************************************************)
(* A model of the notebook feature-engineering-for-house-prices.ipynb:     *)
(* the preprocessing pipeline (load_data, clean, encode, impute), the      *)
(* cross-validated scorer (score_dataset), the cross-fold target encoder   *)
(* (CrossFoldEncoder), create_features and the final prediction cell.      *)
(*                                                                         *)
(* A data frame is a record [index, columns, col]: the row labels, the     *)
(* column names in order, and for each column its dtype, its category      *)
(* levels and its cells.  A cell is a missing value, a number (an exact    *)
(* rational n/d) or a string.                                              *)
(***************************************************************************)
EXTENDS Integers, Sequences, FiniteSets, TLC

(***************************************************************************)
(* Bounds of the model.                                                    *)
(***************************************************************************)
\* the most rows of a training frame: of the frame handed to
\* CrossFoldEncoder.fit_transform or score_dataset, and of train.csv in the
\* run of the whole notebook
NRows == 6
\* rows of train.csv in the runs of load_data alone (test.csv has one row)
NLoadTrain == 2

(***************************************************************************)
(* Program constants.                                                      *)
(***************************************************************************)
\* KFold(n_splits=5) and cross_val_score(cv=5)
n_splits == 5
\* CrossFoldEncoder(MEstimateEncoder, m=1)
m_smoothing == 1
\* clean: GarageYrBlt <= 2010
MaxGarageYear == 2010

----------------------------------------------------------------------------
(***************************************************************************)
(* Cells and exact arithmetic.                                             *)
(***************************************************************************)
RECURSIVE GCD(_, _)
GCD(a, b) == IF b = 0 THEN a ELSE GCD(b, a % b)

Abs(x) == IF x < 0 THEN -x ELSE x

NaN == [t |-> "na", n |-> 0, d |-> 1, s |-> ""]
Str(x) == [t |-> "str", n |-> 0, d |-> 1, s |-> x]
\* the number a/b (b # 0) in lowest terms with a positive denominator
Rat(a, b) ==
    LET g == GCD(Abs(a), Abs(b))
        sg == IF b < 0 THEN -1 ELSE 1
    IN [t |-> "num", n |-> sg * (a \div g), d |-> sg * (b \div g), s |-> ""]
Num(x) == Rat(x, 1)

IsNa(c) == c.t = "na"
RatAdd(x, y) ==
    LET g == GCD(x.d, y.d)
    IN Rat(x.n * (y.d \div g) + y.n * (x.d \div g), (x.d \div g) * y.d)
RatMul(x, y) == Rat(x.n * y.n, x.d * y.d)
RatDivInt(x, k) == Rat(x.n, x.d * k)
RatLeq(x, y) == x.n * y.d <= y.n * x.d

RECURSIVE SeqSum(_)
SeqSum(s) == IF s = <<>> THEN Num(0) ELSE RatAdd(Head(s), SeqSum(Tail(s)))

\* numpy mean of a non-empty sequence of numbers
Mean(s) == RatDivInt(SeqSum(s), Len(s))

Range(s) == {s[i] : i \in DOMAIN s}
\* the subsequence of s at the positions idx (a sequence of positions)
At(s, idx) == [k \in 1..Len(idx) |-> s[idx[k]]]
\* the ascending sequence lo, lo+1, ..., hi
Interval(lo, hi) == [k \in 1..(hi - lo + 1) |-> lo + k - 1]
\* the positions at which the boolean sequence mask is TRUE, ascending
RECURSIVE MaskPositions(_, _)
MaskPositions(mask, i) ==
    IF i > Len(mask) THEN <<>>
    ELSE (IF mask[i] THEN <<i>> ELSE <<>>) \o MaskPositions(mask, i + 1)
\* the positions of s holding v, ascending
PositionsOf(s, v) == MaskPositions([i \in 1..Len(s) |-> s[i] = v], 1)
RECURSIVE Flatten(_)
Flatten(ss) == IF ss = <<>> THEN <<>> ELSE Head(ss) \o Flatten(Tail(ss))

----------------------------------------------------------------------------
(***************************************************************************)
(* Data frames (the pandas operations the notebook uses).                  *)
(***************************************************************************)
NumberDtype == [kind |-> "number", cats |-> <<>>, ordered |-> FALSE]
ObjectDtype == [kind |-> "object", cats |-> <<>>, ordered |-> FALSE]
CategoryDtype(levels, ord) == [kind |-> "category", cats |-> levels, ordered |-> ord]

\* (\o <<>> and @@ <<>> leave a value unchanged; they make TLC compute a sequence
\* or function once, where it is built, instead of at every later use)
Column(dtype, vals) == [dtype |-> dtype, vals |-> vals \o <<>>]
Frame(index, columns, col) ==
    [index |-> index \o <<>>, columns |-> columns \o <<>>, col |-> col @@ <<>>]
NRowsOf(df) == Len(df.index)

\* df.iloc[idx, :]: the rows at the positions idx
Iloc(df, idx) ==
    Frame(At(df.index, idx), df.columns,
          [c \in DOMAIN df.col |-> Column(df.col[c].dtype, At(df.col[c].vals, idx))])

\* the positions selected by df.loc[labels, :]: for each label in turn, every
\* row carrying it
LocPositions(index, labels) ==
    Flatten([k \in 1..Len(labels) |->
                PositionsOf(index, labels[k])])
Loc(df, labels) == Iloc(df, LocPositions(df.index, labels))

\* df[cols]: the listed columns, in the listed order
SelectColumns(df, cols) ==
    Frame(df.index, cols, [c \in Range(cols) |-> df.col[c]])

\* the elements of s that are not in the set seen, in order
Without(s, seen) == At(s, MaskPositions([i \in 1..Len(s) |-> s[i] \notin seen], 1))

\* the column names of the frames in order of first appearance
RECURSIVE ConcatColumns(_)
ConcatColumns(frames) ==
    IF frames = <<>> THEN <<>>
    ELSE LET rest == ConcatColumns(Tail(frames))
         IN Head(frames).columns \o Without(rest, Range(Head(frames).columns))
\* the cells of column c of the frames in turn, missing where a frame lacks it
RECURSIVE ConcatVals(_, _)
ConcatVals(frames, c) ==
    IF frames = <<>> THEN <<>>
    ELSE (IF c \in DOMAIN Head(frames).col
          THEN Head(frames).col[c].vals
          ELSE [i \in 1..Len(Head(frames).index) |-> NaN])
         \o ConcatVals(Tail(frames), c)
\* the dtype of column c in the first frame that has it
RECURSIVE ConcatDtype(_, _)
ConcatDtype(frames, c) ==
    IF c \in DOMAIN Head(frames).col THEN Head(frames).col[c].dtype
    ELSE ConcatDtype(Tail(frames), c)
\* pd.concat(frames): the rows of each frame in turn
ConcatRows(frames) ==
    Frame(Flatten([k \in 1..Len(frames) |-> frames[k].index]),
          ConcatColumns(frames),
          [c \in Range(ConcatColumns(frames)) |->
              Column(ConcatDtype(frames, c), ConcatVals(frames, c))])

\* (mutant) the popped column in the reverse row order
PopSeriesReversed(df, name) ==
    [index |-> [i \in 1..Len(df.index) |-> df.index[Len(df.index) + 1 - i]],
     vals |-> [i \in 1..Len(df.index) |->
                  df.col[name].vals[Len(df.index) + 1 - i]]]
\* y = X.pop(name): the column as a Series, and the frame without it
PopSeries(df, name) == [index |-> df.index, vals |-> df.col[name].vals]
PopRest(df, name) ==
    Frame(df.index, Without(df.columns, {name}),
          [c \in DOMAIN df.col \ {name} |-> df.col[c]])

\* (mutant) as many rows as there are labels are dropped from the top
DropHeadRows(df, labels) == Iloc(df, Interval(Len(labels) + 1, Len(df.index)))

\* X.drop(labels, inplace=True): the rows whose label is not among labels
DropRows(df, labels) ==
    Iloc(df, MaskPositions([i \in 1..Len(df.index) |->
                               df.index[i] \notin Range(labels)], 1))

\* df[name] = column: replaces the column, or appends it as the last one
SetColumn(df, name, column) ==
    Frame(df.index,
          IF name \in DOMAIN df.col THEN df.columns ELSE Append(df.columns, name),
          [c \in DOMAIN df.col \cup {name} |->
              IF c = name THEN column ELSE df.col[c]])

\* the frame with its columns renamed, column k taking the name names[k]
WithColumnNames(df, names) ==
    Frame(df.index, names,
          [c \in Range(names) |->
              df.col[df.columns[CHOOSE k \in 1..Len(names) : names[k] = c]]])

\* left.join(right): the left rows in order, each paired with every right row
\* of the same label (one row of missing values when there is none)
JoinPairs(left, right) ==
    Flatten([i \in 1..Len(left.index) |->
        LET hits == PositionsOf(right.index, left.index[i])
        IN IF hits = <<>> THEN << <<i, 0>> >>
           ELSE [k \in 1..Len(hits) |-> <<i, hits[k]>>]])
Join(left, right) ==
    LET pairs == JoinPairs(left, right)
    IN Frame([k \in 1..Len(pairs) |-> left.index[pairs[k][1]]],
             left.columns \o right.columns,
             [c \in DOMAIN left.col \cup DOMAIN right.col |->
                 IF c \in DOMAIN left.col
                 THEN Column(left.col[c].dtype,
                             [k \in 1..Len(pairs) |-> left.col[c].vals[pairs[k][1]]])
                 ELSE Column(right.col[c].dtype,
                             [k \in 1..Len(pairs) |->
                                 IF pairs[k][2] = 0 THEN NaN
                                 ELSE right.col[c].vals[pairs[k][2]]])])

----------------------------------------------------------------------------
(***************************************************************************)
(* KFold(n_splits=5).split(X): without shuffling, fold k holds out a       *)
(* contiguous block of rows; the first n % 5 blocks have one extra row.    *)
(* Each element is (train positions, held-out positions).                  *)
(***************************************************************************)
\* (mutant) every block has n \div 5 rows: the remainder rows are never held out
FoldSizeNoRemainder(n, k) == n \div n_splits
FoldSize(n, k) == (n \div n_splits) + (IF k <= n % n_splits THEN 1 ELSE 0)
RECURSIVE FoldStart(_, _)
FoldStart(n, k) == IF k = 1 THEN 1 ELSE FoldStart(n, k - 1) + FoldSize(n, k - 1)
KFoldTest(n, k) == Interval(FoldStart(n, k), FoldStart(n, k) + FoldSize(n, k) - 1)
KFoldTrain(n, k) ==
    Interval(1, FoldStart(n, k) - 1)
        \o Interval(FoldStart(n, k) + FoldSize(n, k), n)
KFoldSplit(n) == [k \in 1..n_splits |-> <<KFoldTrain(n, k), KFoldTest(n, k)>>]
\* (mutant) split never raises
KFoldNeverRaises(n) == FALSE
\* split raises ValueError when there are fewer samples than splits
KFoldRaises(n) == n < n_splits


----------------------------------------------------------------------------
(***************************************************************************)
(* A pandas Series: row labels and cells.                                  *)
(***************************************************************************)
Series(index, vals) == [index |-> index \o <<>>, vals |-> vals \o <<>>]
SeriesIloc(y, idx) == Series(At(y.index, idx), At(y.vals, idx))

(***************************************************************************)
(* MEstimateEncoder(cols=cols, m=1) of category_encoders, as the notebook  *)
(* uses it: fit learns, per column and per value, the m-estimate           *)
(* (sum of y over the value's rows + m * prior) / (rows of the value + m)  *)
(* with prior the mean of y; transform replaces each value by its estimate *)
(* and a value not seen in fit by the prior.                               *)
(***************************************************************************)
MEstimate(xs, ys, v, prior) ==
    LET rows == PositionsOf(xs, v)
    IN RatDivInt(RatAdd(SeqSum(At(ys, rows)), RatMul(Num(m_smoothing), prior)),
                 Len(rows) + m_smoothing)

EncoderFit(X, y, cols) ==
    LET prior == Mean(y.vals)
    IN [cols |-> cols,
        seen |-> Range(X.index),      \* history: the labels of the rows fitted on
        prior |-> prior,
        mapping |-> [c \in Range(cols) |->
                        [v \in Range(X.col[c].vals) |->
                            MEstimate(X.col[c].vals, y.vals, v, prior)]]]

EncoderTransform(enc, X) ==
    Frame(X.index, X.columns,
          [c \in DOMAIN X.col |->
              IF c \in Range(enc.cols)
              THEN Column(NumberDtype,
                          [i \in 1..Len(X.index) |->
                              IF X.col[c].vals[i] \in DOMAIN enc.mapping[c]
                              THEN enc.mapping[c][X.col[c].vals[i]]
                              ELSE enc.prior])
              ELSE X.col[c]])

\* X_encoded.columns = [name + "_encoded" for name in X_encoded.columns]
EncodedName(name) == name \o "_encoded"
EncodedColumns(X_encoded) ==
    WithColumnNames(X_encoded,
                    [k \in 1..Len(X_encoded.columns) |-> EncodedName(X_encoded.columns[k])])

NoFrame == Frame(<<>>, <<>>, <<>>)

(***************************************************************************)
(* CrossFoldEncoder.fit_transform(X, y, cols).  The result records what    *)
(* the call leaves in self (fitted_encoders_, cols_), whether it raised,   *)
(* the frame it returned, and per fold the positions it fitted on and the  *)
(* positions it transformed.                                               *)
(***************************************************************************)
\* the two position lists of fold k: for idx_encode, idx_train in cv_.split(X)
FoldIdxEncode(n, k) == KFoldSplit(n)[k][1]
FoldIdxTrain(n, k) == KFoldSplit(n)[k][2]

\* (mutant) the fold's encoder is fitted on every row of X
FoldEncoderAllRows(X, y, cols, k) == EncoderFit(X, y, cols)

\* fitted_encoder = self.encoder_(cols=cols, **self.kwargs_); fitted_encoder.fit(...)
FoldEncoder(X, y, cols, k) ==
    EncoderFit(Iloc(X, FoldIdxEncode(NRowsOf(X), k)),
               SeriesIloc(y, FoldIdxEncode(NRowsOf(X), k)), cols)

\* fitted_encoder.transform(X.iloc[idx_train, :])[cols]
FoldEncoded(fitted_encoder, X, cols, k) ==
    SelectColumns(
        EncoderTransform(fitted_encoder, Iloc(X, FoldIdxTrain(NRowsOf(X), k))),
        cols)

\* (mutant) the list is not reset: the new encoders are appended to the old
FittedAfterAppending(before, fitted) == before \o fitted

\* the encoders self.fitted_encoders_ holds when the loop is over, given the
\* list it held when the call began and the encoders the loop fitted
FittedAfter(before, fitted) == fitted

fit_transform(before, X, y, cols) ==
    IF KFoldRaises(NRowsOf(X)) \/ ~(Range(cols) \subseteq DOMAIN X.col)
    THEN [raised |-> TRUE, fitted_encoders_ |-> FittedAfter(before, <<>>),
          cols_ |-> cols, value |-> NoFrame, folds |-> <<>>]
    ELSE LET fitted == [k \in 1..n_splits |-> FoldEncoder(X, y, cols, k)] \o <<>>
         IN [raised |-> FALSE,
             fitted_encoders_ |-> FittedAfter(before, fitted),
             cols_ |-> cols,
             value |-> EncodedColumns(
                           ConcatRows([k \in 1..n_splits |->
                                          FoldEncoded(fitted[k], X, cols, k)])),
             folds |-> [k \in 1..n_splits |->
                           [fit |-> FoldIdxEncode(NRowsOf(X), k),
                            held |-> FoldIdxTrain(NRowsOf(X), k)]]]

(***************************************************************************)
(* CrossFoldEncoder.transform(X).                                          *)
(***************************************************************************)
\* x.add(y, fill_value=0) on two frames of the same index and columns
CellAdd(a, b) ==
    IF IsNa(a) /\ IsNa(b) THEN NaN
    ELSE RatAdd(IF IsNa(a) THEN Num(0) ELSE a, IF IsNa(b) THEN Num(0) ELSE b)
FrameAdd(x, y) ==
    Frame(x.index, x.columns,
          [c \in DOMAIN x.col |->
              Column(NumberDtype,
                     [i \in 1..Len(x.index) |->
                         CellAdd(x.col[c].vals[i], y.col[c].vals[i])])])
CellDiv(a, k) == IF IsNa(a) THEN NaN ELSE RatDivInt(a, k)
FrameDiv(x, k) ==
    Frame(x.index, x.columns,
          [c \in DOMAIN x.col |->
              Column(NumberDtype,
                     [i \in 1..Len(x.index) |-> CellDiv(x.col[c].vals[i], k)])])
\* functools.reduce(f, list) of a non-empty list, from the left
RECURSIVE ReduceAdd(_, _)
ReduceAdd(acc, rest) ==
    IF rest = <<>> THEN acc ELSE ReduceAdd(FrameAdd(acc, Head(rest)), Tail(rest))

\* (mutant) the sum of the encodings, not divided
AverageEncodingsSumOnly(X_encoded_list) ==
    ReduceAdd(Head(X_encoded_list), Tail(X_encoded_list))

\* reduce(...) / len(X_encoded_list)
AverageEncodings(X_encoded_list) ==
    FrameDiv(ReduceAdd(Head(X_encoded_list), Tail(X_encoded_list)),
             Len(X_encoded_list))

transform(attributes, fitted, cols, X) ==
    IF "fitted_encoders_" \notin attributes
    THEN [raised |-> TRUE, value |-> NoFrame]            \* AttributeError
    ELSE IF fitted = <<>>
    THEN [raised |-> TRUE, value |-> NoFrame]            \* reduce() of empty list
    ELSE IF ~(Range(cols) \subseteq DOMAIN X.col)
    THEN [raised |-> TRUE, value |-> NoFrame]            \* KeyError
    ELSE [raised |-> FALSE,
          value |-> EncodedColumns(
                        AverageEncodings(
                            [k \in 1..Len(fitted) |->
                                SelectColumns(EncoderTransform(fitted[k], X), cols)]))]


----------------------------------------------------------------------------
(***************************************************************************)
(* Preprocessing: clean, encode, impute.  The model carries the columns of *)
(* the competition schema that the notebook names in its code (the three   *)
(* renamed columns, the columns clean repairs, the porch columns, the      *)
(* grouping and interaction columns) and one more of each statistical      *)
(* type; features_nom and ordered_levels are restricted to them.           *)
(***************************************************************************)
\* the order Python sorts the strings of the model in
StrRank(x) ==
    CASE x = "1Fam" -> 1 [] x = "Brk Cmn" -> 2 [] x = "BrkComm" -> 3
      [] x = "CemntBd" -> 4 [] x = "CmentBd" -> 5 [] x = "Duplex" -> 6
      [] x = "NAmes" -> 7 [] x = "None" -> 8 [] x = "OldTown" -> 9
      [] x = "VinylSd" -> 10 [] x = "Wd Sdng" -> 11 [] x = "Wd Shng" -> 12
      [] OTHER -> 13
SortKey(c) == IF c.t = "str" THEN StrRank(c.s) ELSE c.n
\* the cells of a set in ascending order
RECURSIVE Sorted(_)
Sorted(S) ==
    IF S = {} THEN <<>>
    ELSE LET lo == CHOOSE c \in S : \A e \in S : SortKey(c) <= SortKey(e)
         IN <<lo>> \o Sorted(S \ {lo})

\* df["Exterior2nd"].replace({...})
ReplaceTypo(c) ==
    IF c = Str("Brk Cmn") THEN Str("BrkComm")
    ELSE IF c = Str("Wd Shng") THEN Str("Wd Sdng")
    ELSE IF c = Str("CmentBd") THEN Str("CemntBd")
    ELSE c

\* (mutant) the comparison is strict
GarageYearOkStrict(c) == ~IsNa(c) /\ ~RatLeq(Num(MaxGarageYear), c)

\* df["GarageYrBlt"].where(df.GarageYrBlt <= 2010, df.YearBuilt): a comparison
\* with a missing value is False
GarageYearOk(c) == ~IsNa(c) /\ RatLeq(c, Num(MaxGarageYear))
RepairGarageYear(garage, built) == IF GarageYearOk(garage) THEN garage ELSE built

\* df.rename(columns={...})
CleanName(name) ==
    IF name = "1stFlrSF" THEN "FirstFlrSF"
    ELSE IF name = "2ndFlrSF" THEN "SecondFlrSF"
    ELSE IF name = "3SsnPorch" THEN "Threeseasonporch"
    ELSE name

clean(df) ==
    LET typos == SetColumn(df, "Exterior2nd",
                     Column(df.col["Exterior2nd"].dtype,
                            [i \in 1..NRowsOf(df) |->
                                ReplaceTypo(df.col["Exterior2nd"].vals[i])]))
        garage == SetColumn(typos, "GarageYrBlt",
                     Column(NumberDtype,
                            [i \in 1..NRowsOf(df) |->
                                RepairGarageYear(typos.col["GarageYrBlt"].vals[i],
                                                 typos.col["YearBuilt"].vals[i])]))
    IN WithColumnNames(garage,
                       [k \in 1..Len(garage.columns) |-> CleanName(garage.columns[k])])

\* The nominative (unordered) categorical features
features_nom == <<"MSSubClass", "Neighborhood", "BldgType", "Exterior2nd">>
five_levels == <<Str("Po"), Str("Fa"), Str("TA"), Str("Gd"), Str("Ex")>>
\* ten_levels = list(range(10))
ten_levels == [i \in 1..10 |-> Num(i - 1)]
\* the keys of ordered_levels
ordered_names == <<"OverallQual", "OverallCond", "FireplaceQu">>
\* ordered_levels[name], with the "None" level added in front
ordered_levels(name) ==
    <<Str("None")>> \o (IF name \in {"OverallQual", "OverallCond"}
                        THEN ten_levels ELSE five_levels)

\* df[name].astype("category"), then cat.add_categories("None") if it is not a
\* category yet
NominalDtype(vals) ==
    LET cats == Sorted({c \in Range(vals) : ~IsNa(c)})
    IN CategoryDtype(IF Str("None") \in Range(cats) THEN cats
                     ELSE Append(cats, Str("None")), FALSE)
\* df[name].astype(CategoricalDtype(levels, ordered=True)): a value that is not
\* one of the levels becomes missing
AsLevel(c, levels) == IF c \in Range(levels) THEN c ELSE NaN

RECURSIVE EncodeNominal(_, _)
EncodeNominal(df, names) ==
    IF names = <<>> THEN df
    ELSE EncodeNominal(
             SetColumn(df, Head(names),
                 Column(NominalDtype(df.col[Head(names)].vals),
                        df.col[Head(names)].vals)),
             Tail(names))
RECURSIVE EncodeOrdinal(_, _)
EncodeOrdinal(df, names) ==
    IF names = <<>> THEN df
    ELSE EncodeOrdinal(
             SetColumn(df, Head(names),
                 Column(CategoryDtype(ordered_levels(Head(names)), TRUE),
                        [i \in 1..NRowsOf(df) |->
                            AsLevel(df.col[Head(names)].vals[i],
                                    ordered_levels(Head(names)))])),
             Tail(names))
encode(df) == EncodeOrdinal(EncodeNominal(df, features_nom), ordered_names)

\* (mutant) only the numeric columns are filled
FillValueNumbersOnly(dtype, c) ==
    IF IsNa(c) /\ dtype.kind = "number" THEN Num(0) ELSE c

\* df[name].fillna(0) for the numeric columns, fillna("None") for the
\* categorical ones
FillValue(dtype, c) ==
    IF ~IsNa(c) THEN c
    ELSE IF dtype.kind = "number" THEN Num(0)
    ELSE IF dtype.kind = "category" THEN Str("None")
    ELSE c
impute(df) ==
    Frame(df.index, df.columns,
          [c \in DOMAIN df.col |->
              Column(df.col[c].dtype,
                     [i \in 1..NRowsOf(df) |->
                         FillValue(df.col[c].dtype, df.col[c].vals[i])])])

----------------------------------------------------------------------------
(***************************************************************************)
(* Label encoding and the feature functions of create_features.            *)
(***************************************************************************)
\* the position of v in s, 0 when s does not hold it
IndexOf(s, v) == IF v \in Range(s) THEN CHOOSE k \in 1..Len(s) : s[k] = v ELSE 0
\* column.cat.codes: the position of the cell's level, counted from 0, and -1
\* for a missing value
CatCodes(column) ==
    Column(NumberDtype,
           [i \in 1..Len(column.vals) |->
               Num(IndexOf(column.dtype.cats, column.vals[i]) - 1)])
\* for colname in X.select_dtypes(["category"]): X[colname] = X[colname].cat.codes
label_encode(df) ==
    Frame(df.index, df.columns,
          [c \in DOMAIN df.col |->
              IF df.col[c].dtype.kind = "category" THEN CatCodes(df.col[c])
              ELSE df.col[c]])

\* make_mi_scores(X, y): a Series of one score per column of X, sorted in
\* descending order.  mutual_info_regression is an estimator of the library:
\* the model takes from it the set of columns it scores 0 (uninformative) and
\* gives the others distinct positive scores, the later column the higher.
MiScore(X, uninformative, c) ==
    IF c \in uninformative THEN Num(0) ELSE Rat(IndexOf(X.columns, c), 10)
make_mi_scores(X, y, uninformative) ==
    LET informative == Without(X.columns, uninformative)
        ranked == [k \in 1..Len(informative) |->
                      informative[Len(informative) + 1 - k]]
                  \o Without(X.columns, Range(informative))
    IN Series(ranked, [k \in 1..Len(ranked) |-> MiScore(X, uninformative, ranked[k])])

\* df.loc[:, mi_scores > 0.0]: the boolean Series is aligned with the columns
\* of df by label; the columns whose score is positive stay, in df's order
Positive(c) == ~IsNa(c) /\ c.n > 0
drop_uninformative(df, mi_scores) ==
    LET keep == {mi_scores.index[k] : k \in {j \in 1..Len(mi_scores.index) :
                                                 Positive(mi_scores.vals[j])}}
    IN SelectColumns(df, Without(df.columns, Range(df.columns) \ keep))
\* the indexer cannot be aligned when it lacks a column of df (IndexingError)
DropRaises(df, mi_scores) == ~(Range(df.columns) \subseteq Range(mi_scores.index))

\* pd.get_dummies(df.BldgType, prefix="Bldg").mul(df.GrLivArea, axis=0): one
\* column per level of BldgType, holding GrLivArea on the rows of that level
\* and 0 on the others
DummyName(level) == "Bldg_" \o level.s
interactions(df) ==
    LET levels == df.col["BldgType"].dtype.cats
        names == [k \in 1..Len(levels) |-> DummyName(levels[k])]
    IN Frame(df.index, names,
             [c \in Range(names) |->
                 Column(NumberDtype,
                        [i \in 1..NRowsOf(df) |->
                            IF DummyName(df.col["BldgType"].vals[i]) = c
                            THEN df.col["GrLivArea"].vals[i] ELSE Num(0)])])
InteractionsRaises(df) == ~({"BldgType", "GrLivArea"} \subseteq DOMAIN df.col)

\* df[[...]].gt(0.0).sum(axis=1)
PorchColumns ==
    <<"WoodDeckSF", "OpenPorchSF", "EnclosedPorch", "Threeseasonporch", "ScreenPorch">>
counts(df) ==
    Frame(df.index, <<"PorchTypes">>,
          [c \in {"PorchTypes"} |->
              Column(NumberDtype,
                     [i \in 1..NRowsOf(df) |->
                         Num(Cardinality({p \in Range(PorchColumns) :
                                             Positive(df.col[p].vals[i])}))])])
CountsRaises(df) == ~(Range(PorchColumns) \subseteq DOMAIN df.col)

\* the numbers of s in ascending order
RECURSIVE SortNums(_)
SortNums(s) ==
    IF s = <<>> THEN <<>>
    ELSE LET k == CHOOSE k \in 1..Len(s) : \A j \in 1..Len(s) : RatLeq(s[k], s[j])
         IN <<s[k]>> \o SortNums([j \in 1..(Len(s) - 1) |->
                                     IF j < k THEN s[j] ELSE s[j + 1]])
Median(s) ==
    LET t == SortNums(s)
        n == Len(t)
    IN IF n % 2 = 1 THEN t[(n + 1) \div 2]
       ELSE RatDivInt(RatAdd(t[n \div 2], t[(n \div 2) + 1]), 2)

\* the cells of column name on the rows whose column key equals that of row i
GroupOf(df, key, name, i) ==
    At(df.col[name].vals, PositionsOf(df.col[key].vals, df.col[key].vals[i]))

\* df.groupby("Neighborhood")["GrLivArea"].transform("median")
group_transforms(df) ==
    Frame(df.index, <<"MedNhbdArea">>,
          [c \in {"MedNhbdArea"} |->
              Column(NumberDtype,
                     [i \in 1..NRowsOf(df) |->
                         Median(GroupOf(df, "Neighborhood", "GrLivArea", i))])])
GroupTransformsRaises(df) == ~({"Neighborhood", "GrLivArea"} \subseteq DOMAIN df.col)

\* df.groupby("Neighborhood")["OverallQual"].transform("mean")
quality_features(df) ==
    Frame(df.index, <<"QualNhbd">>,
          [c \in {"QualNhbd"} |->
              Column(NumberDtype,
                     [i \in 1..NRowsOf(df) |->
                         Mean(GroupOf(df, "Neighborhood", "OverallQual", i))])])
QualityFeaturesRaises(df) == ~({"Neighborhood", "OverallQual"} \subseteq DOMAIN df.col)

(***************************************************************************)
(* score_dataset: np.log, cross_val_score, np.sqrt, and the regressor.     *)
(***************************************************************************)
RatNeg(x) == Rat(-x.n, x.d)
\* np.log on the prices of the model (1, 2, ...), to one decimal place
LogTenths == <<0, 7, 11, 14, 16, 18, 19, 21>>
Log(c) == IF IsNa(c) THEN NaN ELSE Rat(LogTenths[c.n], 10)
LogSeries(y) == Series(y.index, [i \in 1..Len(y.vals) |-> Log(y.vals[i])])
\* np.sqrt: the principal root of a number that is not negative (kept as a
\* term), nan otherwise
Sqrt(c) ==
    IF IsNa(c) \/ c.n < 0 THEN NaN
    ELSE [t |-> "sqrt", n |-> c.n, d |-> c.d, s |-> ""]
\* np.exp (kept as a term)
Exp(c) == IF IsNa(c) THEN NaN ELSE [t |-> "exp", n |-> c.n, d |-> c.d, s |-> ""]

\* XGBRegressor is a regressor of the library.  The model stands two learners
\* in for it, each a function of the rows it is fitted on: "mean" predicts the
\* mean of the targets it was fitted on, "nearest" the target of the first
\* fitted row that agrees with the row to predict on the first column (the
\* first target when there is none).
Models == {"mean", "nearest"}
Predict(model, X, targets, X_test) ==
    [i \in 1..NRowsOf(X_test) |->
        IF model = "mean" THEN Mean(targets)
        ELSE LET hits == PositionsOf(X.col[X.columns[1]].vals,
                                     X_test.col[X_test.columns[1]].vals[i])
             IN IF hits = <<>> THEN targets[1] ELSE targets[hits[1]]]

SquaredError(p, t) == RatMul(RatAdd(p, RatNeg(t)), RatAdd(p, RatNeg(t)))
\* the mean squared error of the model on fold k: it is fitted on the rows
\* outside the fold and predicts the rows of the fold
FoldMSE(model, X, y, k) ==
    LET fit == KFoldTrain(NRowsOf(X), k)
        held == KFoldTest(NRowsOf(X), k)
        pred == Predict(model, Iloc(X, fit), At(y.vals, fit), Iloc(X, held))
    IN Mean([i \in 1..Len(held) |-> SquaredError(pred[i], y.vals[held[i]])])
\* cross_val_score(model, X, y, cv=5, scoring="neg_mean_squared_error"): one
\* score per fold of KFold(5)
cross_val_score(model, X, y) ==
    [k \in 1..n_splits |-> RatNeg(FoldMSE(model, X, y, k))]

\* (mutant) the mean of the scores, not negated
PlainMean(score) == Mean(score)
\* -1 * score.mean()
NegatedMean(score) == RatNeg(Mean(score))

----------------------------------------------------------------------------
(***************************************************************************)
(* State.                                                                  *)
(***************************************************************************)
VARIABLES
    \* a CrossFoldEncoder object: the attributes set on self, and the two that
    \* fit_transform sets
    attributes, fitted_encoders_, cols_,
    \* history: the last method call on the object and the last fit_transform
    \* call, each with its arguments, the number of encoders the object held
    \* when it began, and its outcome
    call, last_fit,
    \* the frames the calls draw their arguments from
    pool,
    \* train.csv and test.csv as read_csv parses them
    files,
    \* the notebook's position: the code cell being run and the step in it
    cell, pc,
    \* the local variables of the running load_data call: df_train, df_test, df,
    \* and (history) the value of df after each step
    ld,
    \* the notebook's global variables df_train and df_test
    df_train, df_test,
    \* history: the pipeline steps taken so far, in the order they were taken
    steps,
    \* history: for each variable that holds data, the steps (as positions of
    \* the sequence steps) that its value has passed through
    trail,
    \* what the estimators of the libraries answer: the columns that
    \* mutual_info_regression scores 0, and the learners that stand in for
    \* XGBRegressor() and XGBRegressor(**xgb_params)
    oracle,
    \* the local variables of the running score_dataset call
    sd,
    \* the local variables of the running create_features call
    cf,
    \* the notebook's other global variables
    nb,
    \* the file submission.csv
    submission,
    \* history: what the scorer and the final cell were given, each with the
    \* steps its arguments had passed through
    consumed

encObject == <<attributes, fitted_encoders_, cols_, call, last_fit>>
encVars == <<attributes, fitted_encoders_, cols_, call, last_fit, pool>>
loadVars == <<files, cell, pc, ld, df_train, df_test, steps, trail>>
nbVars == <<oracle, sd, cf, nb, submission, consumed>>
vars == <<encVars, loadVars, nbVars>>

NoCall == [op |-> "none", X |-> NoFrame, y |-> Series(<<>>, <<>>), cols |-> <<>>,
           had |-> 0, raised |-> FALSE, value |-> NoFrame, folds |-> <<>>]

\* CrossFoldEncoder.__init__: encoder_, kwargs_ and cv_ are set, nothing else
InitEncoderObject ==
    /\ attributes = {"encoder_", "kwargs_", "cv_"}
    /\ fitted_encoders_ = <<>>
    /\ cols_ = <<>>
    /\ call = NoCall
    /\ last_fit = NoCall

EncoderIdle ==
    /\ InitEncoderObject
    /\ pool = [X |-> NoFrame, y |-> Series(<<>>, <<>>), X_test |-> NoFrame]

----------------------------------------------------------------------------
(***************************************************************************)
(* The input files.  A row of a file is drawn from a few kinds of house    *)
(* that between them hold the cases of the schema: missing values, the     *)
(* misspelt Exterior2nd values, corrupt garage years, ratings 1 to 10.     *)
(***************************************************************************)
\* the Id of row i of train.csv (not in ascending order) and of test.csv
TrainId(i) == IF i % 2 = 1 THEN i + 1 ELSE i - 1
TestId(i) == 100 + i

CsvColumns ==
    <<"MSSubClass", "LotFrontage", "Neighborhood", "BldgType", "OverallQual",
      "OverallCond", "YearBuilt", "Exterior2nd", "1stFlrSF", "2ndFlrSF",
      "GrLivArea", "FireplaceQu", "GarageYrBlt", "WoodDeckSF", "OpenPorchSF",
      "EnclosedPorch", "3SsnPorch", "ScreenPorch", "SalePrice">>
ObjectColumns == {"Neighborhood", "BldgType", "Exterior2nd", "FireplaceQu"}

House(sub, lot, nbhd, bldg, qual, cond, built, ext, area, fp, garage, deck, ssn, price) ==
    [MSSubClass |-> sub, LotFrontage |-> lot, Neighborhood |-> nbhd, BldgType |-> bldg,
     OverallQual |-> qual, OverallCond |-> cond, YearBuilt |-> built,
     Exterior2nd |-> ext, GrLivArea |-> area, FireplaceQu |-> fp,
     GarageYrBlt |-> garage, WoodDeckSF |-> deck, ThreeSsn |-> ssn,
     SalePrice |-> price]

HouseKinds ==
    << House(Num(20), Num(65), Str("NAmes"), Str("1Fam"), Num(5), Num(5), Num(2003),
             Str("VinylSd"), Num(15), Str("Gd"), Num(2003), Num(0), Num(0), Num(4)),
       House(Num(30), NaN, Str("OldTown"), Str("Duplex"), Num(10), Num(1), Num(1950),
             Str("Brk Cmn"), Num(20), NaN, NaN, Num(100), Num(0), Num(8)),
       House(Num(20), Num(80), Str("OldTown"), Str("1Fam"), Num(1), Num(10), Num(2006),
             Str("Wd Shng"), Num(9), Str("Po"), Num(2207), Num(0), Num(30), Num(2)),
       House(NaN, NaN, NaN, Str("1Fam"), NaN, Num(5), Num(2000),
             NaN, Num(12), Str("Ex"), Num(1990), Num(50), Num(10), Num(3)),
       House(Num(30), Num(70), Str("NAmes"), Str("Duplex"), Num(9), Num(9), Num(2009),
             Str("CmentBd"), Num(18), Str("TA"), Num(2010), Num(0), Num(0), Num(6)),
       House(Num(20), Num(60), Str("NAmes"), NaN, Num(6), Num(4), Num(1980),
             Str("Wd Sdng"), Num(11), NaN, Num(2011), Num(20), Num(0), Num(5)) >>

\* the cell of column c of a house
HouseCell(h, c) ==
    CASE c = "MSSubClass" -> h.MSSubClass [] c = "LotFrontage" -> h.LotFrontage
      [] c = "Neighborhood" -> h.Neighborhood [] c = "BldgType" -> h.BldgType
      [] c = "OverallQual" -> h.OverallQual [] c = "OverallCond" -> h.OverallCond
      [] c = "YearBuilt" -> h.YearBuilt [] c = "Exterior2nd" -> h.Exterior2nd
      [] c = "1stFlrSF" -> h.GrLivArea [] c = "2ndFlrSF" -> Num(0)
      [] c = "GrLivArea" -> h.GrLivArea [] c = "FireplaceQu" -> h.FireplaceQu
      [] c = "GarageYrBlt" -> h.GarageYrBlt [] c = "WoodDeckSF" -> h.WoodDeckSF
      [] c = "OpenPorchSF" -> Num(0) [] c = "EnclosedPorch" -> Num(0)
      [] c = "3SsnPorch" -> h.ThreeSsn [] c = "ScreenPorch" -> Num(0)
      [] c = "SalePrice" -> h.SalePrice

\* pd.read_csv(path, index_col="Id") of a file with these rows
CsvFrame(ids, houses, columns) ==
    Frame(ids, columns,
          [c \in Range(columns) |->
              Column(IF c \in ObjectColumns THEN ObjectDtype ELSE NumberDtype,
                     [i \in 1..Len(ids) |-> HouseCell(houses[i], c)])])
\* train.csv has every column; test.csv has no SalePrice
TrainCsv(ids, houses) == CsvFrame(ids, houses, CsvColumns)
TestCsv(ids, houses) == CsvFrame(ids, houses, Without(CsvColumns, {"SalePrice"}))

----------------------------------------------------------------------------
(***************************************************************************)
(* load_data, step by step.                                                *)
(***************************************************************************)
TrailNames ==
    {"ld.df_train", "ld.df_test", "ld.df", "df_train", "df_test",
     "X", "y", "mi_scores", "X_train", "y_train", "X_test", "xgb",
     "predictions", "output", "submission",
     "cf.X", "cf.y", "cf.mi_scores", "cf.X_test", "encoder", "sd.X", "sd.y"}
NoTrail == [v \in TrailNames |-> {}]
\* the position in steps of the step being taken
Stamp == Len(steps) + 1

NoSeries == Series(<<>>, <<>>)
NoLoad == [df_train |-> NoFrame, df_test |-> NoFrame, df |-> NoFrame,
           merged |-> NoFrame, cleaned |-> NoFrame, encoded |-> NoFrame,
           imputed |-> NoFrame]
NoOracle == [uninformative |-> {}, default |-> "none", tuned |-> "none"]
\* (the variable score of score_dataset is the field scores while it holds the
\* array of fold scores and the field score once it holds a number)
NoScore == [X |-> NoFrame, y |-> NoSeries, model |-> "none", log_y |-> NoSeries,
            scores |-> <<>>, score |-> NaN, returned |-> FALSE]
NoCreate == [df |-> NoFrame, df_test |-> NoFrame, has_test |-> FALSE,
             X |-> NoFrame, y |-> NoSeries, mi_scores |-> NoSeries,
             X_test |-> NoFrame]
NoRegressor == [model |-> "none", fitted |-> FALSE, X |-> NoFrame, targets |-> <<>>]
NoGlobals == [X |-> NoFrame, y |-> NoSeries, baseline_score |-> NaN,
              mi_scores |-> NoSeries, X_train |-> NoFrame, y_train |-> NoSeries,
              score |-> NaN, cur_score |-> NaN, X_test |-> NoFrame,
              xgb |-> NoRegressor, predictions |-> <<>>, output |-> NoFrame]
NoFile == [written |-> FALSE, header |-> <<>>, rows |-> <<>>]

\* no cell has run yet: no global is bound, nothing is written
GlobalsIdle ==
    /\ ld = NoLoad
    /\ df_train = NoFrame /\ df_test = NoFrame
    /\ steps = <<>> /\ trail = NoTrail
    /\ sd = NoScore /\ cf = NoCreate /\ nb = NoGlobals
    /\ submission = NoFile /\ consumed = <<>>

\* nothing of the notebook runs
NotebookIdle ==
    /\ files = [train |-> NoFrame, test |-> NoFrame]
    /\ oracle = NoOracle
    /\ cell = "none" /\ pc = "idle"
    /\ GlobalsIdle

\* the notebook is about to run its first code cell that does work
NotebookStart ==
    /\ cell = "load" /\ pc = "read"
    /\ GlobalsIdle

\* (mutant) the first rows of df, as many as the split had
ReformSplitHead(df, index) == Iloc(df, Interval(1, Len(index)))

\* df.loc[df_train.index, :] / df.loc[df_test.index, :]
ReformSplit(df, index) == Loc(df, index)

\* (mutant) encode runs before clean
LoadStepAfterEncodeFirst(step) ==
    CASE step = "read" -> "concat" [] step = "concat" -> "encode"
      [] step = "encode" -> "clean" [] step = "clean" -> "impute"
      [] step = "impute" -> "reform" [] step = "reform" -> "return"

\* the step that follows each step of load_data
LoadStepAfter(step) ==
    CASE step = "read" -> "concat" [] step = "concat" -> "clean"
      [] step = "clean" -> "encode" [] step = "encode" -> "impute"
      [] step = "impute" -> "reform" [] step = "reform" -> "return"

\* df_train = pd.read_csv(...); df_test = pd.read_csv(...)
LoadRead ==
    /\ pc = "read"
    /\ ld' = [NoLoad EXCEPT !.df_train = files.train, !.df_test = files.test]
    /\ steps' = Append(steps, "read_csv")
    /\ trail' = [trail EXCEPT !["ld.df_train"] = {Stamp},
                              !["ld.df_test"] = {Stamp},
                              !["ld.df"] = {}]
    /\ pc' = LoadStepAfter("read")
    /\ UNCHANGED <<files, cell, df_train, df_test, encVars, nbVars>>

\* df = pd.concat([df_train, df_test])
LoadConcat ==
    /\ pc = "concat"
    /\ \E df \in {ConcatRows(<<ld.df_train, ld.df_test>>)} :
          ld' = [ld EXCEPT !.df = df, !.merged = df]
    /\ steps' = Append(steps, "concat")
    /\ trail' = [trail EXCEPT !["ld.df"] =
                     trail["ld.df_train"] \cup trail["ld.df_test"] \cup {Stamp}]
    /\ pc' = LoadStepAfter("concat")
    /\ UNCHANGED <<files, cell, df_train, df_test, encVars, nbVars>>

\* df = clean(df)
LoadClean ==
    /\ pc = "clean"
    /\ \E df \in {clean(ld.df)} : ld' = [ld EXCEPT !.df = df, !.cleaned = df]
    /\ steps' = Append(steps, "clean")
    /\ trail' = [trail EXCEPT !["ld.df"] = @ \cup {Stamp}]
    /\ pc' = LoadStepAfter("clean")
    /\ UNCHANGED <<files, cell, df_train, df_test, encVars, nbVars>>

\* df = encode(df)
LoadEncode ==
    /\ pc = "encode"
    /\ \E df \in {encode(ld.df)} : ld' = [ld EXCEPT !.df = df, !.encoded = df]
    /\ steps' = Append(steps, "encode")
    /\ trail' = [trail EXCEPT !["ld.df"] = @ \cup {Stamp}]
    /\ pc' = LoadStepAfter("encode")
    /\ UNCHANGED <<files, cell, df_train, df_test, encVars, nbVars>>

\* df = impute(df)
LoadImpute ==
    /\ pc = "impute"
    /\ \E df \in {impute(ld.df)} : ld' = [ld EXCEPT !.df = df, !.imputed = df]
    /\ steps' = Append(steps, "impute")
    /\ trail' = [trail EXCEPT !["ld.df"] = @ \cup {Stamp}]
    /\ pc' = LoadStepAfter("impute")
    /\ UNCHANGED <<files, cell, df_train, df_test, encVars, nbVars>>

\* df_train = df.loc[df_train.index, :]; df_test = df.loc[df_test.index, :]
LoadReform ==
    /\ pc = "reform"
    /\ ld' = [ld EXCEPT !.df_train = ReformSplit(ld.df, ld.df_train.index),
                        !.df_test = ReformSplit(ld.df, ld.df_test.index)]
    /\ steps' = Append(steps, "reform")
    /\ trail' = [trail EXCEPT !["ld.df_train"] = trail["ld.df"] \cup {Stamp},
                              !["ld.df_test"] = trail["ld.df"] \cup {Stamp}]
    /\ pc' = LoadStepAfter("reform")
    /\ UNCHANGED <<files, cell, df_train, df_test, encVars, nbVars>>

\* df_train, df_test = load_data(): the call returns into the cell that made it
LoadReturn ==
    /\ pc = "return"
    /\ df_train' = ld.df_train
    /\ df_test' = ld.df_test
    /\ trail' = [trail EXCEPT !["df_train"] = trail["ld.df_train"],
                              !["df_test"] = trail["ld.df_test"]]
    /\ pc' = "loaded"
    /\ UNCHANGED <<files, cell, ld, steps, encVars, nbVars>>

(***************************************************************************)
(* One run of the cell  df_train, df_test = load_data()  on files whose    *)
(* rows are drawn freely from the kinds of house.  The Ids of train.csv    *)
(* are unique; the row of test.csv has an Id of its own, as in the         *)
(* competition's files, or one that train.csv uses too.                    *)
(***************************************************************************)
InitLoad ==
    /\ EncoderIdle
    /\ NotebookStart
    /\ oracle = NoOracle
    /\ \E tr \in [1..NLoadTrain -> Range(HouseKinds)], te \in Range(HouseKinds),
          id \in {TestId(1), TrainId(1)} :
          files = [train |-> TrainCsv([i \in 1..NLoadTrain |-> TrainId(i)], tr),
                   test |-> TestCsv(<<id>>, <<te>>)]

NextLoad ==
    \/ LoadRead \/ LoadConcat \/ LoadClean \/ LoadEncode \/ LoadImpute
    \/ LoadReform \/ LoadReturn
SpecLoad == InitLoad /\ [][NextLoad]_vars

----------------------------------------------------------------------------
(***************************************************************************)
(* The CrossFoldEncoder object under arbitrary sequences of calls.         *)
(* The frames are label-encoded feature frames as create_features builds   *)
(* them: two categorical code columns and a numeric one, with a unique     *)
(* index that is not sorted.                                               *)
(***************************************************************************)
\* the target of row i
PriceAt(i) == 1 + ((i * i * i + i) % 7)
\* (MSSubClass code, Neighborhood code) of a row: the first varies freely on the
\* rows FreeRows and follows the position elsewhere, the second follows the
\* row's position
SubClassCodes == {0, 1}
FreeRows == {1, 2, 4, 6}
KindAt(i, code) == <<code, (i \div 2) % 2>>
UnseenKind == <<2, 2>>
EncColumns == <<"MSSubClass", "Neighborhood", "LotArea">>
ColsChoices == {<<"MSSubClass">>, <<"MSSubClass", "Neighborhood">>}

FeatureFrame(ids, kinds) ==
    Frame(ids, EncColumns,
          [c \in Range(EncColumns) |->
              Column(NumberDtype,
                     [i \in 1..Len(ids) |->
                         IF c = "MSSubClass" THEN Num(kinds[i][1])
                         ELSE IF c = "Neighborhood" THEN Num(kinds[i][2])
                         ELSE Num(1000 + i)])])

InitEnc ==
    /\ InitEncoderObject
    /\ NotebookIdle
    /\ \E codes \in [FreeRows -> SubClassCodes] :
          pool = [X |-> FeatureFrame(
                            [i \in 1..NRows |-> TrainId(i)],
                            [i \in 1..NRows |->
                                KindAt(i, IF i \in FreeRows THEN codes[i] ELSE i % 2)]),
                  y |-> Series([i \in 1..NRows |-> TrainId(i)],
                               [i \in 1..NRows |-> Num(PriceAt(i))]),
                  X_test |-> FeatureFrame(<<TestId(1), TestId(2)>>,
                                          <<KindAt(1, 0), UnseenKind>>)]

\* encoder.fit_transform(X, y, cols) on the first rows of the pool
DoFitTransform(X, y, cols) ==
    \E r \in {fit_transform(fitted_encoders_, X, y, cols)} :
        /\ attributes' = attributes \cup {"fitted_encoders_", "cols_"}
        /\ fitted_encoders_' = r.fitted_encoders_
        /\ cols_' = r.cols_
        /\ call' = [op |-> "fit_transform", X |-> X, y |-> y, cols |-> cols,
                    had |-> Len(fitted_encoders_), raised |-> r.raised, value |-> r.value, folds |-> r.folds]
        /\ last_fit' = call'

EncFitTransform ==
    /\ \E n \in (n_splits - 1)..NRows, cols \in ColsChoices :
          DoFitTransform(Iloc(pool.X, Interval(1, n)),
                         SeriesIloc(pool.y, Interval(1, n)), cols)
    /\ UNCHANGED <<pool, loadVars, nbVars>>

\* encoder.transform(X)
DoTransform(X) ==
    \E r \in {transform(attributes, fitted_encoders_, cols_, X)} :
        /\ call' = [op |-> "transform", X |-> X, y |-> Series(<<>>, <<>>),
                    cols |-> cols_, had |-> Len(fitted_encoders_),
                    raised |-> r.raised, value |-> r.value,
                    folds |-> <<>>]
        /\ UNCHANGED <<attributes, fitted_encoders_, cols_, last_fit>>

EncTransform ==
    /\ \E X \in {pool.X_test, pool.X} : DoTransform(X)
    /\ UNCHANGED <<pool, loadVars, nbVars>>

NextEnc == EncFitTransform \/ EncTransform
SpecEnc == InitEnc /\ [][NextEnc]_vars


----------------------------------------------------------------------------
(***************************************************************************)
(* score_dataset(X, y, model), step by step.                               *)
(***************************************************************************)
\* the steps of the positions T, in the order they were taken
StepsOf(T) ==
    [k \in 1..Cardinality(T) |->
        steps[CHOOSE p \in T : Cardinality({q \in T : q < p}) = k - 1]]
\* the log of what was consumed, with one more entry: who consumed, in which
\* cell, and the steps the variables named X and y had passed through
Consume(by, X, y) ==
    Append(consumed, [by |-> by, cell |-> cell,
                      X |-> StepsOf(trail[X]), y |-> StepsOf(trail[y])])

\* the global variables each cell passes to score_dataset (outside the
\* notebook, the call takes its arguments from the pool)
ScoreXName == IF cell = "baseline" THEN "X" ELSE "X_train"
ScoreYName == IF cell = "baseline" THEN "y" ELSE "y_train"
ScoreX == IF cell = "none" THEN pool.X ELSE nb[ScoreXName]
ScoreY == IF cell = "none" THEN pool.y ELSE nb[ScoreYName]
ScoreModel == IF cell = "tuning" THEN nb.xgb.model ELSE oracle.default

\* the call binds the parameters
ScoreCall ==
    /\ pc = "score_dataset"
    /\ sd' = [NoScore EXCEPT !.X = ScoreX, !.y = ScoreY, !.model = ScoreModel]
    /\ trail' = [trail EXCEPT !["sd.X"] = trail[ScoreXName],
                              !["sd.y"] = trail[ScoreYName]]
    /\ consumed' = Consume("score_dataset", ScoreXName, ScoreYName)
    /\ pc' = "sd.codes"
    /\ UNCHANGED <<encVars, files, cell, ld, df_train, df_test, steps, oracle, cf,
                   nb, submission>>

\* for colname in X.select_dtypes(["category"]): X[colname] = X[colname].cat.codes
\* (X is the caller's frame: the assignment changes it too)
ScoreCodes ==
    /\ pc = "sd.codes"
    /\ \E X \in {label_encode(sd.X)} :
          /\ sd' = [sd EXCEPT !.X = X]
          /\ nb' = IF cell = "none" THEN nb ELSE [nb EXCEPT ![ScoreXName] = X]
    /\ pc' = "sd.log"
    /\ UNCHANGED <<encVars, files, cell, ld, df_train, df_test, steps, trail, oracle,
                   cf, submission, consumed>>

\* log_y = np.log(y)
ScoreLog ==
    /\ pc = "sd.log"
    /\ sd' = [sd EXCEPT !.log_y = LogSeries(sd.y)]
    /\ pc' = "sd.cv"
    /\ UNCHANGED <<encVars, files, cell, ld, df_train, df_test, steps, trail, oracle,
                   cf, nb, submission, consumed>>

\* score = cross_val_score(model, X, log_y, cv=5, scoring="neg_mean_squared_error")
\* (ValueError when X has fewer than 5 rows)
ScoreCrossVal ==
    /\ pc = "sd.cv"
    /\ IF KFoldRaises(NRowsOf(sd.X))
       THEN pc' = "raised" /\ UNCHANGED sd
       ELSE /\ \E score \in {cross_val_score(sd.model, sd.X, sd.log_y)} :
                  sd' = [sd EXCEPT !.scores = score]
            /\ pc' = "sd.mean"
    /\ UNCHANGED <<encVars, files, cell, ld, df_train, df_test, steps, trail, oracle,
                   cf, nb, submission, consumed>>

\* score = -1 * score.mean()
ScoreMean ==
    /\ pc = "sd.mean"
    /\ sd' = [sd EXCEPT !.score = NegatedMean(sd.scores)]
    /\ pc' = "sd.sqrt"
    /\ UNCHANGED <<encVars, files, cell, ld, df_train, df_test, steps, trail, oracle,
                   cf, nb, submission, consumed>>

\* score = np.sqrt(score)
ScoreSqrt ==
    /\ pc = "sd.sqrt"
    /\ sd' = [sd EXCEPT !.score = Sqrt(sd.score)]
    /\ pc' = "sd.return"
    /\ UNCHANGED <<encVars, files, cell, ld, df_train, df_test, steps, trail, oracle,
                   cf, nb, submission, consumed>>

\* return score: the cell that called binds or shows the value, and ends
ScoreReturn ==
    /\ pc = "sd.return"
    /\ sd' = [sd EXCEPT !.returned = TRUE]
    /\ nb' = CASE cell = "baseline" -> [nb EXCEPT !.baseline_score = sd.score]
               [] cell = "features" -> [nb EXCEPT !.score = sd.score]
               [] cell = "tuning" -> [nb EXCEPT !.cur_score = sd.score]
               [] OTHER -> nb
    /\ pc' = "end"
    /\ UNCHANGED <<encVars, files, cell, ld, df_train, df_test, steps, trail, oracle,
                   cf, submission, consumed>>

(***************************************************************************)
(* One call of score_dataset on a preprocessed training frame.             *)
(***************************************************************************)
\* n houses, the kinds of house taken in turn from the one after shift
HousesFrom(n, shift) ==
    [i \in 1..n |-> HouseKinds[((i + shift) % Len(HouseKinds)) + 1]]
\* the training frame load_data returns for train.csv with n rows
LoadedTrain(n, shift) ==
    Loc(impute(encode(clean(ConcatRows(
            <<TrainCsv([i \in 1..n |-> TrainId(i)], HousesFrom(n, shift)),
              TestCsv(<<TestId(1)>>, HousesFrom(1, shift + 1))>>)))),
        [i \in 1..n |-> TrainId(i)])

InitScore ==
    /\ InitEncoderObject
    /\ files = [train |-> NoFrame, test |-> NoFrame]
    /\ cell = "none" /\ pc = "score_dataset"
    /\ GlobalsIdle
    /\ \E n \in (n_splits - 1)..NRows, shift \in 0..3, model \in Models :
          /\ oracle = [NoOracle EXCEPT !.default = model]
          /\ \E df \in {LoadedTrain(n, shift)} :
                pool = [X |-> PopRest(df, "SalePrice"),
                        y |-> PopSeries(df, "SalePrice"),
                        X_test |-> NoFrame]

NextScore ==
    \/ ScoreCall \/ ScoreCodes \/ ScoreLog \/ ScoreCrossVal \/ ScoreMean
    \/ ScoreSqrt \/ ScoreReturn
SpecScore == InitScore /\ [][NextScore]_vars

----------------------------------------------------------------------------
(***************************************************************************)
(* The cells of the notebook, in the order Run All runs them.  A cell      *)
(* whose code raises stops the run (pc = "raised").                        *)
(***************************************************************************)
\* X = df_train.copy(); y = X.pop("SalePrice"); baseline_score = score_dataset(X, y)
BaselineCopy ==
    /\ cell = "load" /\ pc = "loaded"
    /\ cell' = "baseline"
    /\ nb' = [nb EXCEPT !.X = PopRest(df_train, "SalePrice"),
                        !.y = PopSeries(df_train, "SalePrice")]
    /\ trail' = [trail EXCEPT !["X"] = trail["df_train"], !["y"] = trail["df_train"]]
    /\ pc' = "score_dataset"
    /\ UNCHANGED <<encVars, files, ld, df_train, df_test, steps, oracle, sd, cf,
                   submission, consumed>>

\* X = df_train.copy(); y = X.pop("SalePrice")
MiCopy ==
    /\ cell = "baseline" /\ pc = "end"
    /\ cell' = "mi"
    /\ nb' = [nb EXCEPT !.X = PopRest(df_train, "SalePrice"),
                        !.y = PopSeries(df_train, "SalePrice")]
    /\ trail' = [trail EXCEPT !["X"] = trail["df_train"], !["y"] = trail["df_train"]]
    /\ pc' = "make_mi_scores"
    /\ UNCHANGED <<encVars, files, ld, df_train, df_test, steps, oracle, sd, cf,
                   submission, consumed>>

\* mi_scores = make_mi_scores(X, y)
MiScores ==
    /\ cell = "mi" /\ pc = "make_mi_scores"
    /\ nb' = [nb EXCEPT !.mi_scores = make_mi_scores(nb.X, nb.y, oracle.uninformative)]
    /\ steps' = Append(steps, "make_mi_scores")
    /\ trail' = [trail EXCEPT !["mi_scores"] = trail["X"] \cup trail["y"] \cup {Stamp}]
    /\ pc' = "end"
    /\ UNCHANGED <<encVars, files, cell, ld, df_train, df_test, oracle, sd, cf,
                   submission, consumed>>

\* df_train, df_test = load_data()   (the cell that defines create_features)
FeaturesLoad ==
    /\ cell = "mi" /\ pc = "end"
    /\ cell' = "features"
    /\ pc' = "read"
    /\ UNCHANGED <<encVars, files, ld, df_train, df_test, steps, trail, nbVars>>

(***************************************************************************)
(* create_features(df, df_test=None), step by step.                        *)
(***************************************************************************)
\* X_train = create_features(df_train) in the cells "features" and "tuning",
\* X_train, X_test = create_features(df_train, df_test) in the final cell
CreateFeaturesCall ==
    /\ \/ cell = "features" /\ pc = "loaded"
       \/ cell \in {"features", "tuning"} /\ pc = "end"
    /\ cell' = IF pc = "loaded" THEN cell
               ELSE IF cell = "features" THEN "tuning" ELSE "final"
    /\ cf' = [NoCreate EXCEPT !.df = df_train,
                              !.has_test = (cell' = "final"),
                              !.df_test = IF cell' = "final" THEN df_test ELSE NoFrame]
    /\ pc' = "cf.copy"
    /\ UNCHANGED <<encVars, files, ld, df_train, df_test, steps, trail, oracle, sd,
                   nb, submission, consumed>>

\* X = df.copy(); y = X.pop("SalePrice")
CfCopy ==
    /\ pc = "cf.copy"
    /\ cf' = [cf EXCEPT !.X = PopRest(cf.df, "SalePrice"),
                        !.y = PopSeries(cf.df, "SalePrice")]
    /\ trail' = [trail EXCEPT !["cf.X"] = trail["df_train"],
                              !["cf.y"] = trail["df_train"],
                              !["cf.mi_scores"] = {}, !["cf.X_test"] = {},
                              !["encoder"] = {}]
    /\ pc' = "cf.mi"
    /\ UNCHANGED <<encVars, files, cell, ld, df_train, df_test, steps, oracle, sd,
                   nb, submission, consumed>>

\* mi_scores = make_mi_scores(X, y)
CfMiScores ==
    /\ pc = "cf.mi"
    /\ cf' = [cf EXCEPT !.mi_scores = make_mi_scores(cf.X, cf.y, oracle.uninformative)]
    /\ steps' = Append(steps, "make_mi_scores")
    /\ trail' = [trail EXCEPT !["cf.mi_scores"] =
                     trail["cf.X"] \cup trail["cf.y"] \cup {Stamp}]
    /\ pc' = "cf.concat"
    /\ UNCHANGED <<encVars, files, cell, ld, df_train, df_test, oracle, sd, nb,
                   submission, consumed>>

\* if df_test is not None:
\*     X_test = df_test.copy(); X_test.pop("SalePrice"); X = pd.concat([X, X_test])
CfConcat ==
    /\ pc = "cf.concat"
    /\ IF cf.has_test
       THEN /\ \E X_test \in {PopRest(cf.df_test, "SalePrice")} :
                  cf' = [cf EXCEPT !.X_test = X_test,
                                   !.X = ConcatRows(<<cf.X, X_test>>)]
            /\ steps' = Append(steps, "cf.concat")
            /\ trail' = [trail EXCEPT !["cf.X_test"] = trail["df_test"],
                                      !["cf.X"] = @ \cup trail["df_test"] \cup {Stamp}]
       ELSE UNCHANGED <<cf, steps, trail>>
    /\ pc' = "cf.drop"
    /\ UNCHANGED <<encVars, files, cell, ld, df_train, df_test, oracle, sd, nb,
                   submission, consumed>>

\* X = drop_uninformative(X, mi_scores)
CfDrop ==
    /\ pc = "cf.drop"
    /\ IF DropRaises(cf.X, cf.mi_scores)
       THEN pc' = "raised" /\ UNCHANGED <<cf, steps, trail>>
       ELSE /\ pc' = "cf.interactions"
            /\ cf' = [cf EXCEPT !.X = drop_uninformative(cf.X, cf.mi_scores)]
            /\ steps' = Append(steps, "drop_uninformative")
            /\ trail' = [trail EXCEPT !["cf.X"] =
                             @ \cup trail["cf.mi_scores"] \cup {Stamp}]
    /\ UNCHANGED <<encVars, files, cell, ld, df_train, df_test, oracle, sd, nb,
                   submission, consumed>>

\* a statement X = f(X) of create_features: it raises, or X takes the new value
CfStep(to, step, raises, X) ==
    /\ IF raises
       THEN pc' = "raised" /\ UNCHANGED <<cf, steps, trail>>
       ELSE /\ pc' = to
            /\ cf' = [cf EXCEPT !.X = X]
            /\ steps' = Append(steps, step)
            /\ trail' = [trail EXCEPT !["cf.X"] = @ \cup {Stamp}]
    /\ UNCHANGED <<encVars, files, cell, ld, df_train, df_test, oracle, sd, nb,
                   submission, consumed>>

\* X = X.join(interactions(X))
CfInteractions ==
    /\ pc = "cf.interactions"
    /\ CfStep("cf.counts", "interactions",
           InteractionsRaises(cf.X), Join(cf.X, interactions(cf.X)))
\* X = X.join(counts(X))
CfCounts ==
    /\ pc = "cf.counts"
    /\ CfStep("cf.group_transforms", "counts",
           CountsRaises(cf.X), Join(cf.X, counts(cf.X)))
\* X = X.join(group_transforms(X))
CfGroupTransforms ==
    /\ pc = "cf.group_transforms"
    /\ CfStep("cf.label_encode", "group_transforms",
           GroupTransformsRaises(cf.X), Join(cf.X, group_transforms(cf.X)))
\* X = label_encode(X)
CfLabelEncode ==
    /\ pc = "cf.label_encode"
    /\ CfStep("cf.quality_features", "label_encode",
           FALSE, label_encode(cf.X))
\* X = X.join(quality_features(X))
CfQualityFeatures ==
    /\ pc = "cf.quality_features"
    /\ CfStep("cf.reform", "quality_features",
           QualityFeaturesRaises(cf.X), Join(cf.X, quality_features(cf.X)))

\* if df_test is not None:
\*     X_test = X.loc[df_test.index, :]; X.drop(df_test.index, inplace=True)
CfReform ==
    /\ pc = "cf.reform"
    /\ IF cf.has_test
       THEN /\ cf' = [cf EXCEPT !.X_test = Loc(cf.X, cf.df_test.index),
                                !.X = DropRows(cf.X, cf.df_test.index)]
            /\ steps' = Append(steps, "cf.reform")
            /\ trail' = [trail EXCEPT !["cf.X_test"] = trail["cf.X"] \cup {Stamp},
                                      !["cf.X"] = @ \cup {Stamp}]
       ELSE UNCHANGED <<cf, steps, trail>>
    /\ pc' = "cf.encoder"
    /\ UNCHANGED <<encVars, files, cell, ld, df_train, df_test, oracle, sd, nb,
                   submission, consumed>>

\* encoder = CrossFoldEncoder(MEstimateEncoder, m=1)
\* X = X.join(encoder.fit_transform(X, y, cols=["MSSubClass"]))
CfTargetEncode ==
    /\ pc = "cf.encoder"
    /\ \E r \in {fit_transform(<<>>, cf.X, cf.y, <<"MSSubClass">>)} :
          /\ attributes' = {"encoder_", "kwargs_", "cv_", "fitted_encoders_", "cols_"}
          /\ fitted_encoders_' = r.fitted_encoders_
          /\ cols_' = r.cols_
          /\ call' = [op |-> "fit_transform", X |-> cf.X, y |-> cf.y,
                      cols |-> <<"MSSubClass">>, had |-> 0, raised |-> r.raised,
                      value |-> r.value, folds |-> r.folds]
          /\ last_fit' = call'
          /\ IF r.raised
             THEN pc' = "raised" /\ UNCHANGED <<cf, steps, trail>>
             ELSE /\ pc' = "cf.transform"
                  /\ cf' = [cf EXCEPT !.X = Join(cf.X, r.value)]
                  /\ steps' = Append(steps, "fit_transform")
                  /\ trail' = [trail EXCEPT
                                  !["encoder"] = trail["cf.X"] \cup trail["cf.y"]
                                                     \cup {Stamp},
                                  !["cf.X"] = @ \cup trail["cf.y"] \cup {Stamp}]
    /\ UNCHANGED <<pool, files, cell, ld, df_train, df_test, oracle, sd, nb,
                   submission, consumed>>

\* if df_test is not None: X_test = X_test.join(encoder.transform(X_test))
CfTransform ==
    /\ pc = "cf.transform"
    /\ IF cf.has_test
       THEN \E r \in {transform(attributes, fitted_encoders_, cols_, cf.X_test)} :
               /\ call' = [op |-> "transform", X |-> cf.X_test, y |-> NoSeries,
                           cols |-> cols_, had |-> Len(fitted_encoders_),
                           raised |-> r.raised, value |-> r.value, folds |-> <<>>]
               /\ IF r.raised
                  THEN pc' = "raised" /\ UNCHANGED <<cf, steps, trail>>
                  ELSE /\ pc' = "cf.return"
                       /\ cf' = [cf EXCEPT !.X_test = Join(cf.X_test, r.value)]
                       /\ steps' = Append(steps, "transform")
                       /\ trail' = [trail EXCEPT !["cf.X_test"] =
                                        @ \cup trail["encoder"] \cup {Stamp}]
       ELSE pc' = "cf.return" /\ UNCHANGED <<call, cf, steps, trail>>
    /\ UNCHANGED <<attributes, fitted_encoders_, cols_, last_fit, pool, files, cell,
                   ld, df_train, df_test, oracle, sd, nb, submission, consumed>>

\* return X, X_test / return X: the cell binds X_train (and X_test)
CfReturn ==
    /\ pc = "cf.return"
    /\ nb' = IF cf.has_test
             THEN [nb EXCEPT !.X_train = cf.X, !.X_test = cf.X_test]
             ELSE [nb EXCEPT !.X_train = cf.X]
    /\ trail' = IF cf.has_test
                THEN [trail EXCEPT !["X_train"] = trail["cf.X"],
                                   !["X_test"] = trail["cf.X_test"]]
                ELSE [trail EXCEPT !["X_train"] = trail["cf.X"]]
    /\ pc' = "y_train"
    /\ UNCHANGED <<encVars, files, cell, ld, df_train, df_test, steps, oracle, sd,
                   cf, submission, consumed>>

(***************************************************************************)
(* The rest of the cells "features", "tuning" and "final".                 *)
(***************************************************************************)
\* y_train = df_train.loc[:, "SalePrice"]
YTrain ==
    /\ pc = "y_train"
    /\ nb' = [nb EXCEPT !.y_train = PopSeries(df_train, "SalePrice")]
    /\ trail' = [trail EXCEPT !["y_train"] = trail["df_train"]]
    /\ pc' = IF cell = "features" THEN "score_dataset" ELSE "xgb"
    /\ UNCHANGED <<encVars, files, cell, ld, df_train, df_test, steps, oracle, sd,
                   cf, submission, consumed>>

\* xgb = XGBRegressor(**xgb_params)
NewXgb ==
    /\ pc = "xgb"
    /\ nb' = [nb EXCEPT !.xgb = [NoRegressor EXCEPT !.model = oracle.tuned]]
    /\ trail' = [trail EXCEPT !["xgb"] = {}]
    /\ pc' = IF cell = "tuning" THEN "score_dataset" ELSE "fit"
    /\ UNCHANGED <<encVars, files, cell, ld, df_train, df_test, steps, oracle, sd,
                   cf, submission, consumed>>

\* xgb.fit(X_train, np.log(y)): y is the global the cell "mi" bound
\* (ValueError when X_train and y differ in length)
FinalFit ==
    /\ pc = "fit"
    /\ consumed' = Consume("fit", "X_train", "y")
    /\ IF NRowsOf(nb.X_train) # Len(nb.y.vals)
       THEN pc' = "raised" /\ UNCHANGED <<nb, steps, trail>>
       ELSE /\ nb' = [nb EXCEPT !.xgb = [model |-> nb.xgb.model, fitted |-> TRUE,
                                         X |-> nb.X_train,
                                         targets |-> LogSeries(nb.y).vals]]
            /\ steps' = Append(steps, "fit")
            /\ trail' = [trail EXCEPT !["xgb"] =
                             trail["X_train"] \cup trail["y"] \cup {Stamp}]
            /\ pc' = "predict"
    /\ UNCHANGED <<encVars, files, cell, ld, df_train, df_test, oracle, sd, cf,
                   submission>>

\* predictions = np.exp(xgb.predict(X_test))
FinalPredict ==
    /\ pc = "predict"
    /\ consumed' = Consume("predict", "X_test", "xgb")
    /\ \E p \in {Predict(nb.xgb.model, nb.xgb.X, nb.xgb.targets, nb.X_test)} :
          nb' = [nb EXCEPT !.predictions = [i \in 1..Len(p) |-> Exp(p[i])]]
    /\ steps' = Append(steps, "predict")
    /\ trail' = [trail EXCEPT !["predictions"] =
                     trail["X_test"] \cup trail["xgb"] \cup {Stamp}]
    /\ pc' = "output"
    /\ UNCHANGED <<encVars, files, cell, ld, df_train, df_test, oracle, sd, cf,
                   submission>>

\* pd.DataFrame({'Id': index, 'SalePrice': predictions}): the rows are
\* numbered from 0
OutputFrame(index, predictions) ==
    Frame([i \in 1..Len(index) |-> i - 1], <<"Id", "SalePrice">>,
          [c \in {"Id", "SalePrice"} |->
              Column(NumberDtype,
                     IF c = "Id" THEN [i \in 1..Len(index) |-> Num(index[i])]
                     ELSE predictions)])

\* output = pd.DataFrame({'Id': X_test.index, 'SalePrice': predictions})
FinalOutput ==
    /\ pc = "output"
    /\ nb' = [nb EXCEPT !.output = OutputFrame(nb.X_test.index, nb.predictions)]
    /\ trail' = [trail EXCEPT !["output"] = trail["X_test"] \cup trail["predictions"]]
    /\ pc' = "to_csv"
    /\ UNCHANGED <<encVars, files, cell, ld, df_train, df_test, steps, oracle, sd,
                   cf, submission, consumed>>

\* (mutant) the file written with the index as its first column
to_csv_with_index(df) ==
    [written |-> TRUE, header |-> <<"">> \o df.columns,
     rows |-> [i \in 1..NRowsOf(df) |->
                  <<Num(df.index[i])>>
                      \o [k \in 1..Len(df.columns) |-> df.col[df.columns[k]].vals[i]]]]

\* df.to_csv(path, index=False): a header of the column names, then one line
\* per row with the cells of the columns
to_csv(df) ==
    [written |-> TRUE, header |-> df.columns,
     rows |-> [i \in 1..NRowsOf(df) |->
                  [k \in 1..Len(df.columns) |-> df.col[df.columns[k]].vals[i]]]]

\* output.to_csv('submission.csv', index=False)
FinalExport ==
    /\ pc = "to_csv"
    /\ consumed' = Consume("to_csv", "output", "output")
    /\ submission' = to_csv(nb.output)
    /\ steps' = Append(steps, "to_csv")
    /\ trail' = [trail EXCEPT !["submission"] = trail["output"] \cup {Stamp}]
    /\ pc' = "end"
    /\ UNCHANGED <<encVars, files, cell, ld, df_train, df_test, oracle, sd, cf, nb>>

(***************************************************************************)
(* The notebook run from its first cell to its last, on files with unique  *)
(* Ids that the two files do not share.  train.csv has enough rows for the *)
(* 5 folds, or one too few.                                                *)
(***************************************************************************)
\* the sets of columns mutual_info_regression may find uninformative
Uninformative == {{}, {"LotFrontage"}, {"OpenPorchSF"}}

Init ==
    /\ EncoderIdle
    /\ NotebookStart
    /\ \E n \in {n_splits - 1, NRows}, shift \in 0..1, u \in Uninformative,
          model \in Models :
          /\ files = [train |-> TrainCsv([i \in 1..n |-> TrainId(i)],
                                         HousesFrom(n, shift)),
                      test |-> TestCsv(<<TestId(2), TestId(1)>>,
                                       HousesFrom(2, shift + 1))]
          /\ oracle = [uninformative |-> u, default |-> model,
                       tuned |-> CHOOSE other \in Models : other # model]

Next ==
    \/ LoadRead \/ LoadConcat \/ LoadClean \/ LoadEncode \/ LoadImpute
    \/ LoadReform \/ LoadReturn
    \/ BaselineCopy
    \/ ScoreCall \/ ScoreCodes \/ ScoreLog \/ ScoreCrossVal \/ ScoreMean
    \/ ScoreSqrt \/ ScoreReturn
    \/ MiCopy \/ MiScores
    \/ FeaturesLoad \/ CreateFeaturesCall
    \/ CfCopy \/ CfMiScores \/ CfConcat \/ CfDrop \/ CfInteractions \/ CfCounts
    \/ CfGroupTransforms \/ CfLabelEncode \/ CfQualityFeatures \/ CfReform
    \/ CfTargetEncode \/ CfTransform \/ CfReturn
    \/ YTrain \/ NewXgb \/ FinalFit \/ FinalPredict \/ FinalOutput \/ FinalExport
Spec == Init /\ [][Next]_vars

----------------------------------------------------------------------------
(***************************************************************************)
(* Properties of CrossFoldEncoder (under SpecEnc).                         *)
(***************************************************************************)
FitReturned == call.op = "fit_transform" /\ ~call.raised
HeldLabels(k) == At(call.X.index, call.folds[k].held)

\* C1: in fit_transform, for each of the 5 folds the rows the fold's encoder is
\* fitted on and the rows it transforms are disjoint, and every row of the
\* result is the encoding given by an encoder that did not see that row.
C1_OutOfFold ==
    FitReturned =>
        /\ Len(call.folds) = n_splits
        /\ \A k \in 1..n_splits :
              /\ Range(call.folds[k].fit) \cap Range(call.folds[k].held) = {}
              /\ fitted_encoders_[k].seen = Range(At(call.X.index, call.folds[k].fit))
              /\ fitted_encoders_[k].seen \cap Range(HeldLabels(k)) = {}
              /\ Loc(call.value, HeldLabels(k))
                    = EncodedColumns(SelectColumns(
                          EncoderTransform(fitted_encoders_[k],
                                           Iloc(call.X, call.folds[k].held)),
                          call.cols))
        /\ \A p \in 1..Len(call.value.index) :
              \E k \in 1..n_splits : call.value.index[p] \in Range(HeldLabels(k))

C1_Witness ==
    /\ FitReturned
    /\ NRowsOf(call.X) > n_splits
    /\ Len(call.cols) = 2
    /\ \E j, k \in 1..n_splits : fitted_encoders_[j].mapping # fitted_encoders_[k].mapping

\* C2: for X with at least 5 rows (and a unique index) fit_transform returns; the
\* held-out splits of the 5 folds are pairwise disjoint and cover every row; the
\* result has X's index in X's order, one row per row of X, and one column
\* "<col>_encoded" per requested column.
C2_CompleteTransformation ==
    (call.op = "fit_transform" /\ NRowsOf(call.X) >= n_splits) =>
        /\ ~call.raised
        /\ \A j, k \in 1..n_splits :
              j # k => Range(call.folds[j].held) \cap Range(call.folds[k].held) = {}
        /\ UNION {Range(call.folds[k].held) : k \in 1..n_splits} = 1..NRowsOf(call.X)
        /\ call.value.index = call.X.index
        /\ call.value.index = Flatten([k \in 1..n_splits |-> HeldLabels(k)])
        /\ call.value.columns = [i \in 1..Len(call.cols) |-> call.cols[i] \o "_encoded"]
        /\ DOMAIN call.value.col = Range(call.value.columns)
        /\ \A c \in DOMAIN call.value.col :
              Len(call.value.col[c].vals) = NRowsOf(call.X)

C2_Witness ==
    /\ FitReturned
    /\ NRowsOf(call.X) % n_splits # 0
    /\ Len(call.cols) = 2
    /\ call.value.index # <<>>

\* C3: transform(X) after a fit_transform that returned gives, for every row and
\* every encoded column, the sum of the fitted encoders' values for the row
\* divided by the number of fitted encoders, in a column "<col>_encoded", with
\* X's index unchanged.
PerFoldEncodings(X, c, r) ==
    [k \in 1..Len(fitted_encoders_) |->
        EncoderTransform(fitted_encoders_[k], X).col[c].vals[r]]

C3_TransformIsMean ==
    (call.op = "transform" /\ last_fit.op = "fit_transform" /\ ~last_fit.raised) =>
        /\ ~call.raised
        /\ call.value.index = call.X.index
        /\ call.value.columns = [i \in 1..Len(cols_) |-> cols_[i] \o "_encoded"]
        /\ DOMAIN call.value.col = Range(call.value.columns)
        /\ \A i \in 1..Len(cols_), r \in 1..NRowsOf(call.X) :
              call.value.col[cols_[i] \o "_encoded"].vals[r]
                 = RatDivInt(SeqSum(PerFoldEncodings(call.X, cols_[i], r)),
                             Len(fitted_encoders_))

C3_Witness ==
    /\ call.op = "transform" /\ ~call.raised
    /\ call.X = pool.X_test
    /\ \E j, k \in 1..Len(fitted_encoders_) :
          PerFoldEncodings(call.X, cols_[1], 1)[j]
             # PerFoldEncodings(call.X, cols_[1], 1)[k]
    /\ call.value.col[cols_[1] \o "_encoded"].vals[1].d # 1

\* C10 as stated: after any fit_transform call the object holds exactly 5
\* encoders, all of the most recent call and fitted for its cols.
C10_AlwaysFiveEncoders ==
    last_fit.op = "fit_transform" =>
        /\ Len(fitted_encoders_) = n_splits
        /\ cols_ = last_fit.cols
        /\ \A k \in 1..n_splits :
              fitted_encoders_[k] = FoldEncoder(last_fit.X, last_fit.y, last_fit.cols, k)

\* C10 as amended: after a fit_transform call that returned, the object holds
\* exactly the 5 encoders of that call, fitted for its cols, whatever it held
\* before; after a fit_transform call that raised (fewer than 5 rows) it holds
\* none; so a transform that returns averages over exactly 5 encoders.
C10_EncodersOfLastCall ==
    /\ last_fit.op = "fit_transform" =>
          /\ cols_ = last_fit.cols
          /\ IF last_fit.raised
             THEN fitted_encoders_ = <<>>
             ELSE /\ Len(fitted_encoders_) = n_splits
                  /\ \A k \in 1..n_splits :
                        fitted_encoders_[k]
                           = FoldEncoder(last_fit.X, last_fit.y, last_fit.cols, k)
    /\ (call.op = "transform" /\ ~call.raised) => Len(fitted_encoders_) = n_splits

C10_Witness ==
    /\ call.op = "transform" /\ ~call.raised
    /\ last_fit.had = n_splits
    /\ Len(fitted_encoders_) = n_splits


----------------------------------------------------------------------------
(***************************************************************************)
(* Properties of load_data (under SpecLoad).                               *)
(***************************************************************************)
Imputed == ld.imputed # NoFrame
CategoricalNames == Range(features_nom) \cup Range(ordered_names)

\* C4: after impute(df), no numeric and no categorical column holds a missing
\* value: a cell that was missing is 0 in a numeric column and "None" in a
\* categorical one, and a cell that was not missing keeps its value.
C4_ImputeFillsMissing ==
    Imputed =>
        /\ ld.imputed.index = ld.encoded.index
        /\ ld.imputed.columns = ld.encoded.columns
        /\ \A c \in DOMAIN ld.encoded.col :
              /\ ld.imputed.col[c].dtype = ld.encoded.col[c].dtype
              /\ ld.encoded.col[c].dtype.kind \in {"number", "category"} =>
                    \A i \in 1..NRowsOf(ld.encoded) :
                        LET before == ld.encoded.col[c].vals[i]
                            after == ld.imputed.col[c].vals[i]
                        IN /\ ~IsNa(after)
                           /\ ~IsNa(before) => after = before
                           /\ IsNa(before) =>
                                 after = (IF ld.encoded.col[c].dtype.kind = "number"
                                          THEN Num(0) ELSE Str("None"))

C4_Witness ==
    /\ Imputed
    /\ \E c \in DOMAIN ld.encoded.col, i \in 1..NRowsOf(ld.encoded) :
          ld.encoded.col[c].dtype.kind = "number" /\ IsNa(ld.encoded.col[c].vals[i])
    /\ \E c \in DOMAIN ld.encoded.col, i \in 1..NRowsOf(ld.encoded) :
          ld.encoded.col[c].dtype.kind = "category" /\ IsNa(ld.encoded.col[c].vals[i])
    /\ \E c \in DOMAIN ld.encoded.col, i \in 1..NRowsOf(ld.encoded) :
          ld.encoded.col[c].dtype.kind = "category" /\ ~IsNa(ld.encoded.col[c].vals[i])

\* C5: for every feature of features_nom and ordered_levels, encode keeps a
\* value that is not missing as its own category level, so that after encode
\* and impute a cell holds "None" only if the value encode received was missing.
C5_NoneOnlyForMissing ==
    Imputed =>
        \A c \in CategoricalNames, i \in 1..NRowsOf(ld.cleaned) :
            /\ ~IsNa(ld.cleaned.col[c].vals[i]) =>
                  /\ ld.encoded.col[c].vals[i] = ld.cleaned.col[c].vals[i]
                  /\ ld.cleaned.col[c].vals[i] \in Range(ld.encoded.col[c].dtype.cats)
            /\ ld.imputed.col[c].vals[i] = Str("None") =>
                  IsNa(ld.cleaned.col[c].vals[i])

\* C6: given train.csv and test.csv with unique Ids and none in common, load_data
\* returns a train frame with exactly the Ids of train.csv and a test frame with
\* exactly those of test.csv, each in its file's order and each row being the
\* preprocessed row of that Id; the two frames have the same columns.
UniqueLabels(index) == Cardinality(Range(index)) = Len(index)
DisjointUniqueIds ==
    /\ UniqueLabels(files.train.index)
    /\ UniqueLabels(files.test.index)
    /\ Range(files.train.index) \cap Range(files.test.index) = {}

C6_SplitsReformed ==
    (cell = "load" /\ pc = "loaded" /\ DisjointUniqueIds) =>
        /\ df_train.index = files.train.index
        /\ df_test.index = files.test.index
        /\ df_train.columns = df_test.columns
        /\ df_train = Iloc(ld.imputed, Interval(1, NRowsOf(files.train)))
        /\ df_test = Iloc(ld.imputed, Interval(NRowsOf(files.train) + 1,
                                               NRowsOf(ld.imputed)))
        /\ NRowsOf(ld.imputed) = NRowsOf(files.train) + NRowsOf(files.test)

C6_Witness ==
    /\ cell = "load" /\ pc = "loaded" /\ DisjointUniqueIds
    /\ NRowsOf(df_train) >= 2
    /\ df_train.index[1] > df_train.index[2]
    /\ NRowsOf(df_test) >= 1

----------------------------------------------------------------------------
(***************************************************************************)
(* Properties of score_dataset (under SpecScore).                          *)
(***************************************************************************)
\* the squared errors of the model on the rows of fold k, the model being
\* fitted on the other rows with the logarithms of their prices as targets
FoldSquaredErrors(k) ==
    LET held == KFoldTest(NRowsOf(sd.X), k)
        fit == KFoldTrain(NRowsOf(sd.X), k)
        pred == Predict(sd.model, Iloc(sd.X, fit),
                        [i \in 1..Len(fit) |-> Log(sd.y.vals[fit[i]])],
                        Iloc(sd.X, held))
    IN [i \in 1..Len(held) |-> SquaredError(pred[i], Log(sd.y.vals[held[i]]))]

\* C9: score_dataset(X, y, model) returns the square root of the mean, over
\* exactly 5 cross-validation folds, of the fold's mean squared error between
\* the model's predictions and the natural logarithm of y; the result is not
\* negative.
C9_ScoreIsRMSLE ==
    sd.returned =>
        /\ Len(sd.scores) = n_splits
        /\ sd.score = Sqrt(Mean([k \in 1..n_splits |-> Mean(FoldSquaredErrors(k))]))
        /\ sd.score.t = "sqrt" /\ sd.score.n >= 0 /\ sd.score.d > 0

C9_Witness ==
    /\ sd.returned
    /\ NRowsOf(sd.X) > n_splits
    /\ sd.score.n > 0
    /\ \E j, k \in 1..n_splits : sd.scores[j] # sd.scores[k]
    /\ \E c \in DOMAIN pool.X.col : pool.X.col[c].dtype.kind = "category"
    /\ \A c \in DOMAIN sd.X.col : sd.X.col[c].dtype.kind = "number"

----------------------------------------------------------------------------
(***************************************************************************)
(* Properties of the notebook run (under Spec).                            *)
(***************************************************************************)
\* C7: submission.csv has exactly the two columns Id and SalePrice and one row
\* per row of test.csv; the Ids are the index of the test split in its original
\* order, and the i-th SalePrice is the prediction for the i-th test row.
C7_SubmissionRows ==
    submission.written =>
        /\ submission.header = <<"Id", "SalePrice">>
        /\ Len(submission.rows) = NRowsOf(files.test)
        /\ nb.X_test.index = files.test.index
        /\ \A i \in 1..Len(submission.rows) :
              /\ Len(submission.rows[i]) = 2
              /\ submission.rows[i][1] = Num(files.test.index[i])
              /\ nb.X_test.col["YearBuilt"].vals[i] = files.test.col["YearBuilt"].vals[i]
              /\ submission.rows[i][2]
                    = Exp(Predict(nb.xgb.model, nb.X_train,
                                  [j \in 1..Len(nb.y.vals) |-> Log(nb.y.vals[j])],
                                  Iloc(nb.X_test, <<i>>))[1])

C7_Witness ==
    /\ submission.written
    /\ Len(submission.rows) = 2
    /\ files.test.index[1] > files.test.index[2]
    /\ submission.rows[1][2] # submission.rows[2][2]

LoadSteps == <<"read_csv", "concat", "clean", "encode", "impute", "reform">>
\* the steps of create_features, with df_test and without
CreateSteps(has_test) ==
    <<"make_mi_scores">> \o (IF has_test THEN <<"cf.concat">> ELSE <<>>)
        \o <<"drop_uninformative", "interactions", "counts", "group_transforms",
             "label_encode", "quality_features">>
        \o (IF has_test THEN <<"cf.reform">> ELSE <<>>)
        \o <<"fit_transform">>
\* every step a frame passes through, the last being encoder.transform on the
\* test rows
Pipeline(has_test) ==
    LoadSteps \o CreateSteps(has_test) \o (IF has_test THEN <<"transform">> ELSE <<>>)
IsPrefix(s, t) == Len(s) <= Len(t) /\ \A i \in 1..Len(s) : s[i] = t[i]
\* the steps s are an initial part of the pipeline; the ranking, which leaves
\* the frame it ranks as it is, need only be among them from the column drop on
InOrder(s) ==
    \E has_test \in BOOLEAN :
        \/ IsPrefix(s, Pipeline(has_test))
        \/ /\ "drop_uninformative" \notin Range(s)
           /\ IsPrefix(s, Without(Pipeline(has_test), {"make_mi_scores"}))
\* the variables that hold a frame or a column of one
FrameNames == TrailNames \ {"xgb", "predictions", "output", "submission"}

\* C8: the steps run in a fixed order.  The steps a frame has passed through
\* are always an initial part of: read, concat, clean, encode, impute, reform
\* (clean, encode and impute on the merged frame), then the ranking, the column
\* drop, interactions, counts, group_transforms, label_encode, quality_features
\* and the cross-fold target encoding.  score_dataset and the final fit, predict
\* and export are only given data that has passed through every step before them.
C8_FixedOrder ==
    /\ \A v \in FrameNames : InOrder(StepsOf(trail[v]))
    /\ \A k \in 1..Len(consumed) :
          CASE consumed[k].by = "score_dataset" ->
                  /\ consumed[k].y = LoadSteps
                  /\ consumed[k].X = (IF consumed[k].cell = "baseline" THEN LoadSteps
                                      ELSE LoadSteps \o CreateSteps(FALSE))
            [] consumed[k].by = "fit" ->
                  /\ consumed[k].y = LoadSteps
                  /\ consumed[k].X = LoadSteps \o CreateSteps(TRUE)
            [] consumed[k].by = "predict" ->
                  /\ consumed[k].X = Pipeline(TRUE)
                  /\ consumed[k].y = LoadSteps \o LoadSteps \o CreateSteps(TRUE)
                                         \o <<"fit">>
            [] consumed[k].by = "to_csv" ->
                  consumed[k].X = LoadSteps \o Pipeline(TRUE) \o <<"fit", "predict">>

C8_Witness ==
    /\ cell = "final" /\ pc = "end"
    /\ submission.written
    /\ {consumed[k].cell : k \in 1..Len(consumed)}
          = {"baseline", "features", "tuning", "final"}
    /\ StepsOf(trail["X_test"]) = Pipeline(TRUE)

----------------------------------------------------------------------------
(***************************************************************************)
(* Properties of clean (under SpecLoad).                                   *)
(***************************************************************************)
Cleaned == ld.cleaned # NoFrame
\* the cells of the column that clean received under the name it has afterwards
BeforeClean(k) == ld.merged.col[ld.merged.columns[k]].vals
AfterClean(k) == ld.cleaned.col[ld.cleaned.columns[k]].vals
TypoCorrections ==
    {<<Str("Brk Cmn"), Str("BrkComm")>>, <<Str("Wd Shng"), Str("Wd Sdng")>>,
     <<Str("CmentBd"), Str("CemntBd")>>}
ColumnRenames ==
    {<<"1stFlrSF", "FirstFlrSF">>, <<"2ndFlrSF", "SecondFlrSF">>,
     <<"3SsnPorch", "Threeseasonporch">>}

\* C11: after clean, every row's GarageYrBlt is its original value and at most
\* 2010, or the row's YearBuilt; a value that was at most 2010 is not changed;
\* no other cell changes except the three typo corrections in Exterior2nd, and
\* no column name except the three renames.
C11_CleanRepairsGarageYear ==
    Cleaned =>
        /\ ld.cleaned.index = ld.merged.index
        /\ Len(ld.cleaned.columns) = Len(ld.merged.columns)
        /\ \A k \in 1..Len(ld.merged.columns) :
              /\ \/ ld.cleaned.columns[k] = ld.merged.columns[k]
                 \/ <<ld.merged.columns[k], ld.cleaned.columns[k]>> \in ColumnRenames
              /\ ld.merged.columns[k] \in {r[1] : r \in ColumnRenames}
                    => ld.cleaned.columns[k] # ld.merged.columns[k]
              /\ \A i \in 1..NRowsOf(ld.merged) :
                    CASE ld.merged.columns[k] = "GarageYrBlt" ->
                            /\ \/ /\ AfterClean(k)[i] = BeforeClean(k)[i]
                                  /\ ~IsNa(BeforeClean(k)[i])
                                  /\ BeforeClean(k)[i].n <= MaxGarageYear * BeforeClean(k)[i].d
                               \/ AfterClean(k)[i] = ld.merged.col["YearBuilt"].vals[i]
                            /\ (~IsNa(BeforeClean(k)[i])
                                /\ BeforeClean(k)[i].n <= MaxGarageYear * BeforeClean(k)[i].d)
                                  => AfterClean(k)[i] = BeforeClean(k)[i]
                      [] ld.merged.columns[k] = "Exterior2nd" ->
                            \/ /\ AfterClean(k)[i] = BeforeClean(k)[i]
                               /\ BeforeClean(k)[i] \notin {t[1] : t \in TypoCorrections}
                            \/ <<BeforeClean(k)[i], AfterClean(k)[i]>> \in TypoCorrections
                      [] OTHER -> AfterClean(k)[i] = BeforeClean(k)[i]

C11_Witness ==
    /\ Cleaned
    /\ \E i, j, k \in 1..NRowsOf(ld.merged) :
          /\ ld.merged.col["GarageYrBlt"].vals[i] = Num(MaxGarageYear)
          /\ ld.cleaned.col["GarageYrBlt"].vals[i] # ld.merged.col["YearBuilt"].vals[i]
          /\ ld.merged.col["GarageYrBlt"].vals[j].n > MaxGarageYear
          /\ IsNa(ld.merged.col["GarageYrBlt"].vals[k])
          /\ ld.cleaned.col["GarageYrBlt"].vals[k] = ld.merged.col["YearBuilt"].vals[k]
    /\ \E i \in 1..NRowsOf(ld.merged) :
          ld.merged.col["Exterior2nd"].vals[i] # ld.cleaned.col["Exterior2nd"].vals[i]

----------------------------------------------------------------------------
(***************************************************************************)
(* Properties of create_features (under Spec).                             *)
(***************************************************************************)
\* create_features(df_train, df_test) has just returned into the final cell
CreateReturnedSplits == cell = "final" /\ pc = "y_train" /\ cf.has_test

\* C12: create_features(df, df_test) returns X with exactly the index of df and
\* X_test with exactly the index of df_test, each in the same order and no row
\* of one split in the other; X and X_test have the same columns in the same
\* order, SalePrice not among them; and every fold's target encoder was fitted
\* on rows of df only.
C12_SplitsRecreated ==
    CreateReturnedSplits =>
        /\ nb.X_train.index = cf.df.index
        /\ nb.X_test.index = cf.df_test.index
        /\ Range(nb.X_train.index) \cap Range(nb.X_test.index) = {}
        /\ nb.X_train.columns = nb.X_test.columns
        /\ "SalePrice" \notin Range(nb.X_train.columns)
        /\ \A i \in 1..NRowsOf(nb.X_train) :
              nb.X_train.col["YearBuilt"].vals[i] = cf.df.col["YearBuilt"].vals[i]
        /\ \A i \in 1..NRowsOf(nb.X_test) :
              nb.X_test.col["YearBuilt"].vals[i] = cf.df_test.col["YearBuilt"].vals[i]
        /\ Len(fitted_encoders_) = n_splits
        /\ last_fit.X.index = cf.df.index
        /\ \A k \in 1..Len(fitted_encoders_) :
              /\ fitted_encoders_[k].seen \subseteq Range(cf.df.index)
              /\ fitted_encoders_[k].seen \cap Range(cf.df_test.index) = {}

C12_Witness ==
    /\ CreateReturnedSplits
    /\ NRowsOf(nb.X_test) = 2
    /\ cf.df_test.index[1] > cf.df_test.index[2]
    /\ NRowsOf(nb.X_train) > n_splits
    /\ "MSSubClass_encoded" \in Range(nb.X_test.columns)
    /\ "SalePrice" \in Range(cf.df_test.columns)

----------------------------------------------------------------------------
(***************************************************************************)
(* Failures of CrossFoldEncoder (under SpecEnc).                           *)
(***************************************************************************)
\* no fit_transform call has been made on the object
FreshEncoder == last_fit.op = "none"
NothingProduced == call.raised /\ call.value = NoFrame

\* C13: transform on an encoder on which fit_transform was never called fails,
\* and fit_transform on an X of fewer than 5 rows fails; neither produces an
\* encoded frame.  transform returns a value only after a fit_transform call
\* that returned.
C13_FailsWithoutFit ==
    /\ (call.op = "transform" /\ FreshEncoder) => NothingProduced
    /\ (call.op = "fit_transform" /\ NRowsOf(call.X) < n_splits) =>
          NothingProduced /\ call.folds = <<>>
    /\ (call.op = "transform" /\ ~call.raised) =>
          /\ last_fit.op = "fit_transform" /\ ~last_fit.raised
          /\ NRowsOf(call.value) = NRowsOf(call.X)

C13_Witness ==
    /\ call.op = "transform" /\ NothingProduced
    /\ last_fit.op = "fit_transform" /\ last_fit.raised
    /\ last_fit.had = 0
    /\ NRowsOf(last_fit.X) = n_splits - 1
    /\ last_fit.value = NoFrame

C13_WitnessFresh ==
    call.op = "transform" /\ FreshEncoder /\ NothingProduced /\ NRowsOf(call.X) > 0

----------------------------------------------------------------------------
(***************************************************************************)
(* The target of the final fit (under Spec).                               *)
(***************************************************************************)
\* xgb.fit(X_train, np.log(y)) of the final cell is about to run or has run
AtFinalFit == cell = "final" /\ (pc = "fit" \/ nb.xgb.fitted)

\* C14: at xgb.fit of the final cell, the global y bound in the mutual
\* information cell has the Ids of X_train in the same order and the
\* SalePrice of each of those training rows: it equals y_train, which the
\* final cell takes from the data reloaded in between.
C14_GlobalYIsTrainingTarget ==
    AtFinalFit =>
        /\ nb.y.index = nb.X_train.index
        /\ nb.y.index = files.train.index
        /\ nb.y.vals = files.train.col["SalePrice"].vals
        /\ nb.y = nb.y_train
        /\ nb.y_train = PopSeries(df_train, "SalePrice")
        /\ nb.xgb.fitted =>
              /\ nb.xgb.X = nb.X_train
              /\ nb.xgb.targets = [i \in 1..Len(nb.y_train.vals) |->
                                      Log(nb.y_train.vals[i])]

C14_Witness ==
    /\ cell = "final" /\ nb.xgb.fitted
    /\ "fit" \in Range(steps)
    /\ Len(nb.y.vals) > n_splits
    /\ nb.y.index[1] > nb.y.index[2]
    /\ nb.y.vals[1] # nb.y.vals[2]
    /\ Len(SelectSeq(steps, LAMBDA s : s = "read_csv")) >= 2

=============================================================================
